---- MODULE Spec2Model ----
(***************************************************************************)
(* Model of the B2SHARE Nagios probe (check_b2share.py).                   *)
(*                                                                         *)
(* Three specifications share this module:                                 *)
(*   SpecSanitize  sanitize_rdm_metadata and scan_vocab_extras applied to  *)
(*                 every JSON tree of bounded size;                        *)
(*   SpecSchema    build_metadata_schema applied to bounded parent         *)
(*                 schemas;                                                *)
(*   Spec          one run of main(), from parsed arguments to exit.       *)
(***************************************************************************)
EXTENDS Integers, Sequences, FiniteSets, TLC

(***************************************************************************)
(* JSON values.  A Python dict is an insertion-ordered sequence of         *)
(* key/value items with distinct keys, a list is a sequence, and scalars   *)
(* are strings, numbers or booleans.                                       *)
(***************************************************************************)
Dict(items) == [type |-> "dict", items |-> items]
List(elems) == [type |-> "list", elems |-> elems]
Str(s) == [type |-> "string", str |-> s]
Num(n) == [type |-> "number", num |-> n]
Bool(b) == [type |-> "bool", b |-> b]
KV(key, val) == [k |-> key, v |-> val]

IsDict(x) == x.type = "dict"
IsList(x) == x.type = "list"

\* dict.keys()
Keys(d) == {d.items[i].k : i \in DOMAIN d.items}
\* `k in d`
Has(d, key) == key \in Keys(d)
\* d[k], for a key that is present
Get(d, key) == d.items[CHOOSE i \in DOMAIN d.items : d.items[i].k = key].v

\* bool(x) of a JSON value
Truthy(x) ==
    CASE x.type = "dict" -> x.items # <<>>
      [] x.type = "list" -> x.elems # <<>>
      [] x.type = "string" -> x.str # ""
      [] x.type = "number" -> x.num # 0
      [] x.type = "bool" -> x.b

\* The elements of a sequence, as a set
Range(s) == {s[i] : i \in DOMAIN s}

(***************************************************************************)
(* Vocabulary sanitisation and reporting                                   *)
(***************************************************************************)
UI_EXTRA_KEYS ==
    {"icon", "props", "tags", "scheme", "uri", "identifier", "identifiers",
     "description", "links"}

\* f"{path}.{k}" if path else k
NewPath(path, k) == IF path # "" THEN path \o "." \o k ELSE k

\* The two side effects of dropping a key: the debug line on stderr and the
\* append to the report list (report=None is withReport = FALSE).
Dropped(acc, debug, withReport, line) ==
    [report |-> IF withReport THEN Append(acc.report, line.path) ELSE acc.report,
     err    |-> IF debug THEN Append(acc.err, line.text) ELSE acc.err]

IgnoringLine(newpath) ==
    [path |-> newpath,
     text |-> "DEBUG-METADATA: Ignoring vocabulary key '" \o newpath \o "'"]
StrippingLine(newpath) ==
    [path |-> newpath,
     text |-> "DEBUG-METADATA: Stripping vocabulary title at '" \o newpath \o "'"]

\* Line 69 as it would read if enrichment keys were dropped in vocabulary
\* objects (those with an id) only
SanitizerDropsExtra_OnlyWithId(obj, k) == k \in UI_EXTRA_KEYS /\ Has(obj, "id")
\* Line 69: the key is one of the enrichment keys
SanitizerDropsExtra(obj, k) == k \in UI_EXTRA_KEYS
\* Line 77: a title next to an id
SanitizerDropsTitle(obj, k) == Has(obj, "id") /\ k = "title"

RECURSIVE sanitize_rdm_metadata(_, _, _, _, _)
RECURSIVE SanitizeItems(_, _, _, _, _, _, _)
RECURSIVE SanitizeElems(_, _, _, _, _, _, _)

\* The `for k, v in obj.items()` loop from item i on; cleaned is the dict
\* built so far.
SanitizeItems(obj, i, cleaned, debug, path, withReport, acc) ==
    IF i > Len(obj.items)
    THEN [val |-> Dict(cleaned), acc |-> acc]
    ELSE LET k == obj.items[i].k
             v == obj.items[i].v
             newpath == NewPath(path, k)
         IN  IF SanitizerDropsExtra(obj, k)
             THEN SanitizeItems(obj, i + 1, cleaned, debug, path, withReport,
                                Dropped(acc, debug, withReport, IgnoringLine(newpath)))
             ELSE IF SanitizerDropsTitle(obj, k)
             THEN SanitizeItems(obj, i + 1, cleaned, debug, path, withReport,
                                Dropped(acc, debug, withReport, StrippingLine(newpath)))
             ELSE LET r == sanitize_rdm_metadata(v, debug, newpath, withReport, acc)
                  IN  SanitizeItems(obj, i + 1, Append(cleaned, KV(k, r.val)),
                                    debug, path, withReport, r.acc)

\* The list comprehension, from element i on
SanitizeElems(obj, i, out, debug, path, withReport, acc) ==
    IF i > Len(obj.elems)
    THEN [val |-> List(out), acc |-> acc]
    ELSE LET r == sanitize_rdm_metadata(obj.elems[i], debug, path \o "[]",
                                        withReport, acc)
         IN  SanitizeElems(obj, i + 1, Append(out, r.val), debug, path,
                           withReport, r.acc)

\* Returns the cleaned tree (val) with the report list and the stderr lines
\* after the call (acc).
sanitize_rdm_metadata(obj, debug, path, withReport, acc) ==
    IF IsDict(obj) THEN SanitizeItems(obj, 1, <<>>, debug, path, withReport, acc)
    ELSE IF IsList(obj) THEN SanitizeElems(obj, 1, <<>>, debug, path, withReport, acc)
    ELSE [val |-> obj, acc |-> acc]

\* Line 106: the key is one of the enrichment keys
ScanFindsExtra(obj, k) == k \in UI_EXTRA_KEYS
\* Line 109 as it would read without the has_id test
ScanFindsTitle_AnyTitle(obj, k) == k = "title"
\* Line 109: a title next to an id
ScanFindsTitle(obj, k) == Has(obj, "id") /\ k = "title"

RECURSIVE scan_vocab_extras(_, _, _)
RECURSIVE ScanItems(_, _, _, _)
RECURSIVE ScanElems(_, _, _, _)

ScanItems(obj, i, path, found) ==
    IF i > Len(obj.items)
    THEN found
    ELSE LET k == obj.items[i].k
             v == obj.items[i].v
             newpath == NewPath(path, k)
         IN  IF ScanFindsExtra(obj, k)
             THEN ScanItems(obj, i + 1, path, Append(found, newpath))
             ELSE IF ScanFindsTitle(obj, k)
             THEN ScanItems(obj, i + 1, path, Append(found, newpath))
             ELSE ScanItems(obj, i + 1, path, scan_vocab_extras(v, newpath, found))

ScanElems(obj, i, path, found) ==
    IF i > Len(obj.elems)
    THEN found
    ELSE ScanElems(obj, i + 1, path,
                   scan_vocab_extras(obj.elems[i], path \o "[]", found))

\* Returns the found list after the call.
scan_vocab_extras(obj, path, found) ==
    IF IsDict(obj) THEN ScanItems(obj, 1, path, found)
    ELSE IF IsList(obj) THEN ScanElems(obj, 1, path, found)
    ELSE found

(***************************************************************************)
(* Schema discovery and derivation                                         *)
(***************************************************************************)
Draft07 == "http://json-schema.org/draft-07/schema#"
Draft04 == "http://json-schema.org/draft-04/schema#"
Draft06 == "http://json-schema.org/draft-06/schema#"

RECURSIVE DictUpdate(_, _, _)
\* d.update(other), from item i of other on: a key already in d keeps its
\* place and takes the new value, a new key is appended.
DictUpdate(d, other, i) ==
    IF i > Len(other.items)
    THEN d
    ELSE LET it == other.items[i]
         IN  DictUpdate(
                 IF Has(d, it.k)
                 THEN Dict([j \in DOMAIN d.items |->
                               IF d.items[j].k = it.k THEN it ELSE d.items[j]])
                 ELSE Dict(Append(d.items, it)),
                 other, i + 1)

\* The declarator as it would be if the parent's $schema were not looked up
SchemaDeclarator_AlwaysDefault(parent_schema) == Str(Draft07)
\* parent_schema.get("$schema", "http://json-schema.org/draft-07/schema#")
SchemaDeclarator(parent_schema) ==
    IF Has(parent_schema, "$schema") THEN Get(parent_schema, "$schema") ELSE Str(Draft07)

\* parent_schema.get("properties") or {}: an absent or false value gives {}
PropsOf(parent_schema) ==
    IF Has(parent_schema, "properties") /\ Truthy(Get(parent_schema, "properties"))
    THEN Get(parent_schema, "properties")
    ELSE Dict(<<>>)

\* isinstance(props.get("metadata"), dict)
MetadataIsDict(props) == Has(props, "metadata") /\ IsDict(Get(props, "metadata"))

\* md_schema = {"$schema": ...}; md_schema.update(md)
WrapMetadata(parent_schema, md) ==
    DictUpdate(Dict(<<KV("$schema", SchemaDeclarator(parent_schema))>>), md, 1)

\* Returns the exception raised ("" when none) and the returned document.
build_metadata_schema(parent_schema) ==
    LET props == PropsOf(parent_schema)
    IN  IF ~MetadataIsDict(props)
        THEN [raised |-> "KeyError", val |-> Dict(<<>>)]
        ELSE [raised |-> "", val |-> WrapMetadata(parent_schema, Get(props, "metadata"))]

(***************************************************************************)
(* The probe run: main()                                                   *)
(*                                                                         *)
(* A run is a record: its position (pc), what it wrote to standard output  *)
(* and standard error, its exit code (-1 while running), the calls it made *)
(* to the network and to jsonschema, and the locals of main() that later   *)
(* steps read.  Responses are mappings where the code expects mappings;    *)
(* keys may be missing and lists may be empty.                             *)
(***************************************************************************)
Out(r, line) == [r EXCEPT !.stdout = Append(@, line)]
Err(r, cond, line) == IF cond THEN [r EXCEPT !.stderr = Append(@, line)] ELSE r
\* A call to the network or to jsonschema, with how it ended
Call(r, op, arg, result) ==
    [r EXCEPT !.calls = Append(@, [op |-> op, arg |-> arg, result |-> result])]
\* sys.exit(code)
Exit(r, code) == [r EXCEPT !.pc = "done", !.exit = code]

RECURSIVE ErrAll(_, _)
\* Print the lines, in order, to standard error
ErrAll(r, lines) ==
    IF lines = <<>> THEN r ELSE ErrAll(Err(r, TRUE, Head(lines)), Tail(lines))

Exc(type, arg) == [type |-> type, arg |-> arg]
NoExc == Exc("", "")
KeyError(key) == Exc("KeyError", "'" \o key \o "'")
IndexError == Exc("IndexError", "'list index out of range'")

\* The classes an exception is an instance of
Bases(type) ==
    CASE type = "HTTPError" -> {"HTTPError", "RequestException", "OSError"}
      [] type = "ConnectionError" -> {"ConnectionError", "RequestException", "OSError"}
      [] type = "JSONDecodeError" -> {"JSONDecodeError", "RequestException", "ValueError"}
      [] type = "KeyError" -> {"KeyError", "LookupError"}
      [] type = "IndexError" -> {"IndexError", "LookupError"}
      [] type = "ValidationError" -> {"ValidationError"}
      [] type = "SchemaError" -> {"SchemaError"}
      [] OTHER -> {type}

\* repr(e)
Repr(exc) == exc.type \o "(" \o exc.arg \o ")"

\* The classes named by the two except clauses of main()
CaughtClasses == {"HTTPError", "ValueError", "KeyError", "RequestException"}

\* The handlers as they would be without sys.exit: the CRITICAL line is
\* printed and the run stays where it is
Raise_NoExit(r, exc) == Out(r, "CRITICAL: " \o Repr(exc))
\* An exception raised inside the try block: the except clauses print the
\* CRITICAL line and exit 2; any other exception leaves main(), and the
\* interpreter prints the traceback to standard error and exits 1.
Raise(r, exc) ==
    IF Bases(exc.type) \cap CaughtClasses # {}
    THEN Exit(Out(r, "CRITICAL: " \o Repr(exc)), 2)
    ELSE Exit(Err(r, TRUE, "Traceback (most recent call last): " \o Repr(exc)), 1)

RECURSIVE RStrip(_, _)
\* url.rstrip(c)
RStrip(s, c) ==
    IF Len(s) > 0 /\ SubSeq(s, Len(s), Len(s)) = c
    THEN RStrip(SubSeq(s, 1, Len(s) - 1), c)
    ELSE s

\* str(x) of a JSON scalar inside an f-string
Show(x) == IF x.type = "number" THEN ToString(x.num) ELSE x.str

\* The argument of the KeyError that h["links"]["self"] raises ("" if none)
MissingLink(h, key) ==
    IF ~Has(h, "links") THEN "links"
    ELSE IF ~Has(Get(h, "links"), key) THEN key
    ELSE ""

\* validate_url as it would be if MissingSchema were not turned into False
validate_url_AcceptsAll(url) == [raised |-> NoExc, val |-> TRUE]
\* validate_url: prepare_url's verdict on the URL is part of the argument.
\* MissingSchema gives False; any other exception of prepare_url is not
\* caught here.
validate_url(url) ==
    IF url.prepare = "MissingSchema" THEN [raised |-> NoExc, val |-> FALSE]
    ELSE IF url.prepare = "ok" THEN [raised |-> NoExc, val |-> TRUE]
    ELSE [raised |-> Exc(url.prepare, "'" \o url.text \o "'"), val |-> FALSE]

\* Lines 204-207: p.verbose after the clamp
ClampVerbose(n) == IF n > 3 THEN 3 ELSE n

\* Lines 209-229: argument checks and the verbose preamble.  Nothing of this
\* is inside the try block.
DoStart(r, p) ==
    LET v == validate_url(p.url)
        verbosity == ClampVerbose(p.verbose)
    IN  IF v.raised # NoExc
        THEN Exit(Err(r, TRUE, "Traceback (most recent call last): " \o Repr(v.raised)), 1)
        ELSE IF ~v.val
        THEN Exit(Err(r, TRUE, "CRITICAL: Invalid URL syntax " \o p.url.text), 3)
        ELSE IF p.timeout < 1
        THEN Exit(Err(r, TRUE, "check_b2share.py: error: Timeout must be >= 1"), 2)
        ELSE LET base_url == RStrip(p.url.text, "/")
                 r1 == [r EXCEPT !.base_url = base_url, !.pc = "search"]
             IN  IF verbosity > 1
                 THEN ErrAll(r1, <<"Verbosity level: " \o ToString(verbosity),
                                   "Timeout: " \o ToString(p.timeout) \o " seconds",
                                   "B2SHARE URL: " \o base_url,
                                   "Starting B2SHARE Probe...",
                                   "---------------------------">>)
                 ELSE r1

\* get_json: the trace line, the GET, raise_for_status and r.json().  resp
\* is what the server does with the request.
get_json(r, verbosity, url, resp) ==
    [run    |-> Call(Err(r, verbosity > 2, "Making a HTTP GET request to " \o url),
                     "GET", url, IF resp.error = "" THEN "ok" ELSE resp.error),
     raised |-> IF resp.error = "" THEN NoExc ELSE Exc(resp.error, "'" \o url \o "'"),
     json   |-> resp.json]

\* Lines 247-256 as they would be without the test of the flag
NoRecords_IgnoresFlag(r, p) == Exit(Out(r, "OK"), 0)
\* Lines 247-256: the search reported no records
NoRecords(r, p) ==
    LET r1 == Err(r, p.verbose > 1, "No search results returned by the query.")
    IN  IF p.error_if_no_records_present
        THEN Exit(Out(r1, "CRITICAL: It seems that there are no records stored in this B2SHARE instance"), 2)
        ELSE Exit(Out(IF p.verbose > 0 THEN Out(r1, "---------------------------") ELSE r1,
                      "OK"), 0)

\* Positions of the hits for which h.get("files") is true
HitsWithFiles(hits) ==
    {i \in DOMAIN hits : Has(hits[i], "files") /\ Truthy(Get(hits[i], "files"))}

\* Lines 258-278: prefer the first hit with files, else take the first hit
ChooseRecord(r, p, search) ==
    IF ~Has(Get(search, "hits"), "hits")
    THEN Raise(r, KeyError("hits"))
    ELSE LET hits == Get(Get(search, "hits"), "hits").elems
             r1 == Err(r, p.verbose > 1, "Search returned some results.")
             withFiles == HitsWithFiles(hits)
         IN  IF withFiles # {}
             THEN LET h == hits[CHOOSE i \in withFiles : \A j \in withFiles : i <= j]
                  IN  IF MissingLink(h, "self") # ""
                      THEN Raise(r1, KeyError(MissingLink(h, "self")))
                      ELSE [Err(r1, p.verbose > 1, "A record containing files was found.")
                               EXCEPT !.record_url = Get(Get(h, "links"), "self").str,
                                      !.pc = "record"]
             ELSE LET r2 == IF p.verbose > 1
                            THEN ErrAll(r1, <<"No records containing files were found.",
                                              "Fetching a record without files.">>)
                            ELSE r1
                  IN  IF hits = <<>>
                      THEN Raise(r2, IndexError)
                      ELSE IF MissingLink(hits[1], "self") # ""
                      THEN Raise(r2, KeyError(MissingLink(hits[1], "self")))
                      ELSE [r2 EXCEPT !.record_url = Get(Get(hits[1], "links"), "self").str,
                                      !.pc = "record"]

\* Lines 236-278
DoSearch(r, p, resp) ==
    LET g == get_json(Err(r, p.verbose > 1, "Making a search."), p.verbose,
                      r.base_url \o "/api/records?sort=newest&size=10", resp)
    IN  IF g.raised # NoExc
        THEN Raise(g.run, g.raised)
        ELSE LET search == g.json
                 hitsObj == IF Has(search, "hits") THEN Get(search, "hits") ELSE Dict(<<>>)
                 total == IF Has(hitsObj, "total") THEN Get(hitsObj, "total") ELSE Num(0)
                 r1 == Out([g.run EXCEPT !.total = total], "hits: " \o Show(total))
             IN  IF total = Num(0) THEN NoRecords(r1, p) ELSE ChooseRecord(r1, p, search)

\* discover_schema_url, with the fallback of lines 288-291: the URL found,
\* or the KeyError that leaves the fallback
SchemaUrlOf(rec) ==
    IF Has(rec, "$schema")
    THEN [raised |-> NoExc, url |-> Get(rec, "$schema").str]
    ELSE IF MissingLink(rec, "$schema") = ""
    THEN [raised |-> NoExc, url |-> Get(Get(rec, "links"), "$schema").str]
    ELSE IF ~Has(rec, "metadata")
    THEN [raised |-> KeyError("metadata"), url |-> ""]
    ELSE IF ~Has(Get(rec, "metadata"), "$schema")
    THEN [raised |-> KeyError("$schema"), url |-> ""]
    ELSE [raised |-> NoExc, url |-> Get(Get(rec, "metadata"), "$schema").str]

\* Lines 280-291
DoRecord(r, p, resp) ==
    LET g == get_json(r, p.verbose, r.record_url, resp)
    IN  IF g.raised # NoExc
        THEN Raise(g.run, g.raised)
        ELSE LET r1 == Err([g.run EXCEPT !.rec = g.json], p.verbose > 1,
                           "Fetching record's metadata schema.")
                 s == SchemaUrlOf(g.json)
             IN  IF s.raised # NoExc
                 THEN Raise(r1, s.raised)
                 ELSE [r1 EXCEPT !.schema_url = s.url, !.pc = "schema"]

\* Lines 293-300
DoSchema(r, p, resp) ==
    LET g == get_json(r, p.verbose, r.schema_url, resp)
    IN  IF g.raised # NoExc
        THEN Raise(g.run, g.raised)
        ELSE LET r1 == Err([g.run EXCEPT !.parent_schema = g.json], p.verbose > 1,
                           "Accessing file bucket of the record.")
             IN  IF MissingLink(r.rec, "files") # ""
                 THEN Raise(r1, KeyError(MissingLink(r.rec, "files")))
                 ELSE [r1 EXCEPT !.bucket_url = Get(Get(r.rec, "links"), "files").str,
                                 !.pc = "bucket"]

\* finalize_version as it would be with the two tests swapped
finalize_version_ContentsFirst(bucket_json) ==
    IF Has(bucket_json, "contents") THEN "v2"
    ELSE IF Has(bucket_json, "entries") THEN "v3"
    ELSE "v2"
\* finalize_version
finalize_version(bucket_json) ==
    IF Has(bucket_json, "entries") THEN "v3"
    ELSE IF Has(bucket_json, "contents") THEN "v2"
    ELSE "v2"

\* Lines 301-308
DoBucket(r, p, resp) ==
    LET g == get_json(r, p.verbose, r.bucket_url, resp)
    IN  IF g.raised # NoExc
        THEN Raise(g.run, g.raised)
        ELSE LET version == finalize_version(g.json)
             IN  Err([g.run EXCEPT !.bucket = g.json, !.version = version,
                                   !.pc = "validate"],
                     version # "v3" /\ p.metadata_report /\ p.verbose > 1,
                     "METADATA-REPORT: not applicable for B2SHARE v2 (no vocab enrichment).")

\* The characters of the paths and keys in code-point order
CodePoints == "'-.0123456789ABCDEFGHIJKLMNOPQRSTUVWXYZ[]_abcdefghijklmnopqrstuvwxyz"
CodePoint(c) == CHOOSE i \in 1..Len(CodePoints) : SubSeq(CodePoints, i, i) = c

RECURSIVE StrLess(_, _)
\* a < b on Python strings
StrLess(a, b) ==
    IF a = "" THEN b # ""
    ELSE IF b = "" THEN FALSE
    ELSE IF SubSeq(a, 1, 1) = SubSeq(b, 1, 1)
    THEN StrLess(SubSeq(a, 2, Len(a)), SubSeq(b, 2, Len(b)))
    ELSE CodePoint(SubSeq(a, 1, 1)) < CodePoint(SubSeq(b, 1, 1))

RECURSIVE Sorted(_)
\* sorted(S) of a set of strings
Sorted(S) ==
    IF S = {} THEN <<>>
    ELSE LET m == CHOOSE x \in S : \A y \in S \ {x} : StrLess(x, y)
         IN  <<m>> \o Sorted(S \ {m})

\* Lines 335-341 and 367-373: the vocabulary report on standard error
ReportLines(header, extras_report) ==
    IF extras_report # <<>>
    THEN <<header>>
         \o [i \in 1..Cardinality(Range(extras_report)) |->
                "  - " \o Sorted(Range(extras_report))[i]]
         \o <<"METADATA-REPORT: total=" \o ToString(Cardinality(Range(extras_report)))>>
    ELSE <<header, "  (none)">>

\* Line 360 as it would be if the except clause caught nothing
LenientCatches_Nothing(verdict) == FALSE
\* Line 360: the exception classes that the except clause around the
\* non-strict validation catches
LenientCatches(verdict) == verdict = "ValidationError"

\* Lines 326-344: strict validation of the unmodified metadata
ValidateStrict(r, p, oracle) ==
    LET r1 == Err(r, p.verbose > 1,
                  "Validating record's metadata against metadata schema (STRICT).")
        extras == IF p.metadata_report
                  THEN scan_vocab_extras(r.metadata_input, "", <<>>)
                  ELSE <<>>
        r2 == IF p.metadata_report
              THEN ErrAll([r1 EXCEPT !.extras_report = extras],
                          ReportLines("METADATA-REPORT: vocabulary-like keys (strict mode):",
                                      extras))
              ELSE r1
        r3 == Call(r2, "validate", "md_schema", oracle.verdict)
    IN  IF oracle.verdict # "valid"
        THEN Raise(r3, Exc(oracle.verdict, "'metadata'"))
        ELSE [r3 EXCEPT !.pc = "head"]

\* Lines 346-373: validation of the sanitized metadata
ValidateLenient(r, p, oracle) ==
    LET r1 == Err(r, p.verbose > 1,
                  "Validating record's metadata against metadata schema (vocabulary ignored).")
        s == sanitize_rdm_metadata(r.metadata_input, p.debug_metadata, "",
                                   p.metadata_report, [report |-> <<>>, err |-> <<>>])
        r2 == ErrAll([r1 EXCEPT !.metadata_input = s.val,
                                !.extras_report = s.acc.report],
                     s.acc.err)
        r3 == Call(r2, "validate", "md_schema", oracle.verdict)
        r4 == IF oracle.verdict # "valid" /\ LenientCatches(oracle.verdict) /\ p.verbose > 2
              THEN ErrAll(r3, <<"WARNING: Non-strict metadata validation warning:",
                                "Details: " \o oracle.verdict>>)
              ELSE r3
    IN  IF oracle.verdict # "valid" /\ ~LenientCatches(oracle.verdict)
        THEN Raise(r3, Exc(oracle.verdict, "'metadata'"))
        ELSE [(IF p.metadata_report
               THEN ErrAll(r4, ReportLines("METADATA-REPORT: vocabulary-like keys (ignored):",
                                           r4.extras_report))
               ELSE r4)
              EXCEPT !.pc = "head"]

\* Lines 311-373: the v3 branch.  oracle is what jsonschema answers:
\* whether check_schema accepts the parent schema, and validate's verdict.
ValidateV3(r, p, oracle) ==
    LET r1 == Call(Err(r, p.verbose > 1, "Validating parent record schema (draft-07)."),
                   "check_schema", "Draft7",
                   IF oracle.schema_ok THEN "ok" ELSE "SchemaError")
        r2 == Err(r1, p.verbose > 1, "Building metadata-only schema from parent schema.")
        b == build_metadata_schema(r.parent_schema)
    IN  IF ~oracle.schema_ok
        THEN Raise(r1, Exc("SchemaError", "'parent_schema'"))
        ELSE IF b.raised # ""
        THEN Raise(r2, Exc(b.raised, "\"Record schema does not define 'properties.metadata'\""))
        ELSE IF ~Has(r.rec, "metadata")
        THEN Raise(r2, KeyError("metadata"))
        ELSE LET r3 == [r2 EXCEPT !.md_schema = b.val,
                                  !.metadata_input = Get(r.rec, "metadata")]
             IN  IF p.strict_metadata
                 THEN ValidateStrict(r3, p, oracle)
                 ELSE ValidateLenient(r3, p, oracle)

\* Lines 375-385: the v2 branch
ValidateV2(r, p, oracle) ==
    LET r1 == Call(Err(r, p.verbose > 1, "Validating record's metadata schema."),
                   "check_schema", "Draft4",
                   IF oracle.schema_ok THEN "ok" ELSE "SchemaError")
        r2 == Err(r1, p.verbose > 1, "Validating record against metadata schema.")
        r3 == Call(r2, "validate", "parent_schema", oracle.verdict)
    IN  IF ~oracle.schema_ok
        THEN Raise(r1, Exc("SchemaError", "'parent_schema'"))
        ELSE IF ~Has(r.rec, "metadata")
        THEN Raise(r2, KeyError("metadata"))
        ELSE IF oracle.verdict # "valid"
        THEN Raise(r3, Exc(oracle.verdict, "'metadata'"))
        ELSE [r3 EXCEPT !.pc = "head"]

\* Lines 310-385
DoValidate(r, p, oracle) ==
    IF r.version = "v3" THEN ValidateV3(r, p, oracle) ELSE ValidateV2(r, p, oracle)

\* Lines 388-391: the key of the bucket list the file is picked from
FileListKey(version) == IF version = "v3" THEN "entries" ELSE "contents"

\* Lines 387-407: pick the first file, HEAD it, report success
DoHead(r, p, resp) ==
    LET key == FileListKey(r.version)
    IN  IF ~Has(r.bucket, key)
        THEN Raise(r, KeyError(key))
        ELSE IF Get(r.bucket, key).elems = <<>>
        THEN Raise(r, IndexError)
        ELSE IF MissingLink(Get(r.bucket, key).elems[1], "self") # ""
        THEN Raise(r, KeyError(MissingLink(Get(r.bucket, key).elems[1], "self")))
        ELSE LET file_url == Get(Get(Get(r.bucket, key).elems[1], "links"), "self").str
                 r1 == Call(Err([r EXCEPT !.file_url = file_url], p.verbose > 1,
                                "Fetching first file of the bucket."),
                            "HEAD", file_url, IF resp.error = "" THEN "ok" ELSE resp.error)
             IN  IF resp.error # ""
                 THEN Raise(r1, Exc(resp.error, "'" \o file_url \o "'"))
                 ELSE Exit(Out(IF p.verbose > 0
                               THEN Out(r1, "---------------------------")
                               ELSE r1,
                               "OK: records, metadata schemas and files are accessible."),
                           0)

(***************************************************************************)
(* State                                                                   *)
(***************************************************************************)
VARIABLES
    tree,     \* SpecSanitize: the object handed to both tree walks
    san,      \* SpecSanitize: the sanitize_rdm_metadata call and its effects
    scan,     \* SpecSanitize: the scan_vocab_extras call and its result
    parent,   \* SpecSchema: the parent schema handed to build_metadata_schema
    built,    \* SpecSchema: the exception raised and the document returned
    p,        \* Spec: the parsed command line
    run,      \* Spec: the run
    twin      \* Spec: the run with the same command line and the same
              \* responses whose jsonschema.validate answers the opposite
              \* (valid for ValidationError and ValidationError for valid)

sanVars == <<tree, san, scan>>
schemaVars == <<parent, built>>
runVars == <<p, run, twin>>
vars == <<tree, san, scan, parent, built, p, run, twin>>

NotSanitized ==
    [called |-> FALSE, debug |-> FALSE, withReport |-> FALSE,
     val |-> Str(""), report |-> <<>>, err |-> <<>>]
NotScanned == [called |-> FALSE, found |-> <<>>]
NotBuilt == [called |-> FALSE, raised |-> "", val |-> Dict(<<>>)]

\* The state at the top of main(), after parse_args
NewRun ==
    [pc |-> "start", stdout |-> <<>>, stderr |-> <<>>, exit |-> -1, calls |-> <<>>,
     base_url |-> "", total |-> Str(""), record_url |-> "", rec |-> Dict(<<>>), schema_url |-> "",
     parent_schema |-> Dict(<<>>), bucket_url |-> "", bucket |-> Dict(<<>>),
     version |-> "", md_schema |-> Dict(<<>>), metadata_input |-> Dict(<<>>),
     extras_report |-> <<>>, file_url |-> ""]

NoArgs ==
    [url |-> [text |-> "", prepare |-> "ok"], timeout |-> 15, verbose |-> 0,
     error_if_no_records_present |-> FALSE, strict_metadata |-> FALSE,
     debug_metadata |-> FALSE, metadata_report |-> FALSE]

\* The variables of a specification that is not running
SanitizeIdle == tree = Str("") /\ san = NotSanitized /\ scan = NotScanned
SchemaIdle == parent = Dict(<<>>) /\ built = NotBuilt
RunIdle == p = NoArgs /\ run = NewRun /\ twin = NewRun

(***************************************************************************)
(* SpecSanitize: both tree walks applied to every bounded input tree       *)
(***************************************************************************)
\* Largest number of nodes (mappings, sequences and scalars) of an input tree
MaxNodes == 3

TreeKeys == {"icon", "id", "title", "rights"}

\* Injective key sequences of length m: the keys of a dict in insertion order
KeySeqs(m) ==
    {ks \in [1..m -> TreeKeys] : \A i, j \in 1..m : ks[i] = ks[j] => i = j}

RECURSIVE TreesOfSize(_)
RECURSIVE ForestsOfSize(_)

\* Sequences of trees with n nodes in total
ForestsOfSize(n) ==
    IF n = 0
    THEN {<<>>}
    ELSE UNION {{<<t>> \o f : t \in TreesOfSize(k), f \in ForestsOfSize(n - k)} :
                k \in 1..n}

\* Trees with exactly n nodes
TreesOfSize(n) ==
    (IF n = 1 THEN {Str("x")} ELSE {})
    \cup {List(f) : f \in ForestsOfSize(n - 1)}
    \cup UNION {{Dict([i \in 1..Len(f) |-> KV(ks[i], f[i])]) : ks \in KeySeqs(Len(f))} :
                f \in ForestsOfSize(n - 1)}

BoundedTrees == UNION {TreesOfSize(n) : n \in 1..MaxNodes}

\* A vocabulary object carrying every enrichment key next to id and title
AllExtrasDoc ==
    Dict(<<KV("id", Str("cc-by")), KV("title", Str("CC BY")),
           KV("icon", Str("x")), KV("props", Dict(<<>>)), KV("tags", List(<<>>)),
           KV("scheme", Str("x")), KV("uri", Str("x")), KV("identifier", Str("x")),
           KV("identifiers", List(<<>>)), KV("description", Str("x")),
           KV("links", Dict(<<KV("self", Str("x"))>>))>>)

\* Metadata with an enriched vocabulary reference
RightsDoc ==
    Dict(<<KV("rights",
              Dict(<<KV("id", Str("cc-by")), KV("title", Str("CC BY")),
                     KV("description", Str("...")), KV("icon", Str("x"))>>))>>)

\* Metadata without any enrichment
PlainDoc ==
    Dict(<<KV("titles", List(<<Dict(<<KV("title", Str("A record"))>>)>>)),
           KV("community", Str("eudat"))>>)

Trees == BoundedTrees \cup {AllExtrasDoc, RightsDoc, PlainDoc,
                            Dict(<<KV("creators", List(<<AllExtrasDoc, RightsDoc>>))>>)}

NoAcc == [report |-> <<>>, err |-> <<>>]

InitSanitize ==
    /\ tree \in Trees
    /\ san = NotSanitized
    /\ scan = NotScanned
    /\ SchemaIdle /\ RunIdle

\* sanitize_rdm_metadata(tree, debug=..., report=[] or None); the function
\* assigns nothing to its argument.
CallSanitize ==
    /\ ~san.called
    /\ \E debug \in BOOLEAN, withReport \in BOOLEAN :
          LET r == sanitize_rdm_metadata(tree, debug, "", withReport, NoAcc)
          IN  san' = [called |-> TRUE, debug |-> debug, withReport |-> withReport,
                      val |-> r.val, report |-> r.acc.report, err |-> r.acc.err]
    /\ UNCHANGED <<tree, scan, schemaVars, runVars>>

\* scan_vocab_extras(tree); the function assigns nothing to its argument.
CallScan ==
    /\ ~scan.called
    /\ scan' = [called |-> TRUE, found |-> scan_vocab_extras(tree, "", <<>>)]
    /\ UNCHANGED <<tree, san, schemaVars, runVars>>

NextSanitize == CallSanitize \/ CallScan

SpecSanitize == InitSanitize /\ [][NextSanitize]_vars

(***************************************************************************)
(* SpecSchema: build_metadata_schema applied to bounded parent schemas     *)
(***************************************************************************)
\* The items of s whose key is in keep, in the order of s
RECURSIVE Pick(_, _)
Pick(s, keep) ==
    IF s = <<>> THEN <<>>
    ELSE IF s[1].k \in keep THEN <<s[1]>> \o Pick(Tail(s), keep)
    ELSE Pick(Tail(s), keep)

MdFields ==
    <<KV("type", Str("object")),
      KV("$schema", Str(Draft04)),
      KV("properties", Dict(<<KV("rights", Dict(<<KV("type", Str("object"))>>))>>)),
      KV("required", List(<<Str("rights")>>)),
      KV("additionalProperties", Bool(FALSE))>>

\* Metadata sub-schemas: every selection of the fields above
MdSchemas == {Dict(Pick(MdFields, keep)) : keep \in SUBSET Keys(Dict(MdFields))}

\* What `properties` can hold in a document that passed check_schema: a
\* mapping whose values are schemas (mappings or booleans)
PropertiesValues ==
    {Dict(<<>>),
     Dict(<<KV("title", Dict(<<KV("type", Str("string"))>>))>>),
     Dict(<<KV("metadata", Bool(TRUE))>>)}
    \cup {Dict(<<KV("created", Dict(<<>>)), KV("metadata", md)>>) : md \in MdSchemas}

ParentFields(props) ==
    <<KV("$schema", Str(Draft06)), KV("type", Str("object")), KV("properties", props)>>

ParentSchemas ==
    {Dict(Pick(ParentFields(props), keep)) :
        props \in PropertiesValues,
        keep \in {{"type"}, {"$schema", "type"}, {"type", "properties"},
                  {"$schema", "type", "properties"}}}

InitSchema ==
    /\ parent \in ParentSchemas
    /\ built = NotBuilt
    /\ SanitizeIdle /\ RunIdle

CallBuildMetadataSchema ==
    /\ ~built.called
    /\ LET r == build_metadata_schema(parent)
       IN  built' = [called |-> TRUE, raised |-> r.raised, val |-> r.val]
    /\ UNCHANGED <<parent, sanVars, runVars>>

NextSchema == CallBuildMetadataSchema

SpecSchema == InitSchema /\ [][NextSchema]_vars

(***************************************************************************)
(* Spec: one run of main()                                                 *)
(***************************************************************************)
\* Largest number of -v flags on the command line
MaxVerboseCount == 4

\* Base URLs with what PreparedRequest.prepare_url does with them
Urls ==
    {[text |-> "https://b2share.example/", prepare |-> "ok"],
     [text |-> "b2share.example", prepare |-> "MissingSchema"],
     [text |-> "https://", prepare |-> "InvalidURL"]}

\* The command line.  --no-verify-tls-cert and --use-proxy only configure
\* the session (and one trace line) and are left out.
Args ==
    [url : Urls, timeout : {0, 15}, verbose : 0..MaxVerboseCount,
     error_if_no_records_present : BOOLEAN, strict_metadata : BOOLEAN,
     debug_metadata : BOOLEAN, metadata_report : BOOLEAN]

Site == "https://b2share.example"
Links(items) == KV("links", Dict(items))
RecordUrlA == Site \o "/api/records/a"
RecordUrlB == Site \o "/api/records/b"
SchemaUrl == Site \o "/api/schemas/record"
BucketUrl == Site \o "/api/files/bucket"
EntryUrl == BucketUrl \o "/data.csv"
ContentUrl == BucketUrl \o "/legacy.csv"

HitWithoutFiles == Dict(<<KV("id", Str("a")), Links(<<KV("self", Str(RecordUrlA))>>)>>)
HitWithFiles ==
    Dict(<<KV("id", Str("b")), KV("files", List(<<Str("data.csv")>>)),
           Links(<<KV("self", Str(RecordUrlB))>>)>>)
HitWithoutLinks == Dict(<<KV("id", Str("c")), KV("files", List(<<Str("data.csv")>>))>>)

SearchOf(items) == Dict(<<KV("hits", Dict(items))>>)

SearchBodies ==
    {Dict(<<>>),
     SearchOf(<<KV("hits", List(<<HitWithoutFiles>>))>>),
     SearchOf(<<KV("total", Num(0)), KV("hits", List(<<>>))>>),
     SearchOf(<<KV("total", Num(1)), KV("hits", List(<<>>))>>),
     SearchOf(<<KV("total", Num(1))>>),
     SearchOf(<<KV("total", Num(1)), KV("hits", List(<<HitWithoutFiles>>))>>),
     SearchOf(<<KV("total", Num(2)), KV("hits", List(<<HitWithoutFiles, HitWithFiles>>))>>),
     SearchOf(<<KV("total", Num(1)), KV("hits", List(<<HitWithoutLinks>>))>>)}

SelfAndFiles == <<KV("self", Str(RecordUrlB)), KV("files", Str(BucketUrl))>>

RecordBodies ==
    {Dict(<<KV("$schema", Str(SchemaUrl)), Links(SelfAndFiles), KV("metadata", RightsDoc)>>),
     Dict(<<Links(SelfAndFiles \o <<KV("$schema", Str(SchemaUrl))>>),
            KV("metadata", PlainDoc)>>),
     Dict(<<Links(SelfAndFiles),
            KV("metadata", Dict(<<KV("$schema", Str(SchemaUrl))>> \o PlainDoc.items))>>),
     Dict(<<Links(SelfAndFiles), KV("metadata", PlainDoc)>>),
     Dict(<<KV("metadata", Dict(<<KV("$schema", Str(SchemaUrl))>>))>>),
     Dict(<<KV("$schema", Str(SchemaUrl)), Links(<<KV("self", Str(RecordUrlB))>>),
            KV("metadata", PlainDoc)>>),
     Dict(<<KV("$schema", Str(SchemaUrl)), Links(SelfAndFiles)>>)}

RightsSchema ==
    Dict(<<KV("type", Str("object")),
           KV("properties",
              Dict(<<KV("rights",
                        Dict(<<KV("type", Str("object")),
                               KV("additionalProperties", Bool(FALSE))>>))>>))>>)

SchemaBodies ==
    {Dict(<<KV("$schema", Str(Draft07)),
            KV("properties", Dict(<<KV("metadata", RightsSchema)>>))>>),
     Dict(<<KV("properties",
               Dict(<<KV("metadata",
                         Dict(<<KV("$schema", Str(Draft04))>> \o RightsSchema.items))>>))>>),
     Dict(<<KV("$schema", Str(Draft04)),
            KV("properties", Dict(<<KV("community", Dict(<<>>))>>))>>)}

FileAt(url) == Dict(<<KV("key", Str("f")), Links(<<KV("self", Str(url))>>)>>)

BucketBodies ==
    {Dict(<<KV("entries", List(<<FileAt(EntryUrl)>>))>>),
     Dict(<<KV("entries", List(<<>>))>>),
     Dict(<<KV("entries", List(<<Dict(<<KV("key", Str("f"))>>)>>))>>),
     Dict(<<KV("contents", List(<<FileAt(ContentUrl)>>)),
            KV("entries", List(<<FileAt(EntryUrl)>>))>>),
     Dict(<<KV("contents", List(<<FileAt(ContentUrl)>>))>>),
     Dict(<<KV("contents", List(<<>>))>>),
     Dict(<<KV("id", Str("bucket"))>>)}

\* What the server does with a request: a connection failure, a non-2xx
\* status, a body that is no JSON, or one of the bodies
TransportErrors == {"ConnectionError", "HTTPError"}
Responses(bodies) ==
    {[error |-> e, json |-> Dict(<<>>)] : e \in TransportErrors \cup {"JSONDecodeError"}}
    \cup {[error |-> "", json |-> b] : b \in bodies}
HeadResponses == {[error |-> e] : e \in TransportErrors \cup {""}}

\* What jsonschema answers
Oracles ==
    [schema_ok : BOOLEAN, verdict : {"valid", "ValidationError", "SchemaError"}]

\* The twin's jsonschema.validate answers the opposite about the metadata
TwinOracle(oracle) ==
    [oracle EXCEPT !.verdict = IF @ = "valid" THEN "ValidationError"
                                ELSE IF @ = "ValidationError" THEN "valid"
                                ELSE @]

At(pc) == run.pc = pc \/ twin.pc = pc
Step(r, pc, next) == IF r.pc = pc THEN next ELSE r

Init ==
    /\ p \in Args
    /\ run = NewRun
    /\ twin = NewRun
    /\ SanitizeIdle /\ SchemaIdle

Start ==
    /\ At("start")
    /\ run' = Step(run, "start", DoStart(run, p))
    /\ twin' = Step(twin, "start", DoStart(twin, p))
    /\ p' = [p EXCEPT !.verbose = ClampVerbose(@)]
    /\ UNCHANGED <<sanVars, schemaVars>>

Search ==
    /\ At("search")
    /\ \E resp \in Responses(SearchBodies) :
          /\ run' = Step(run, "search", DoSearch(run, p, resp))
          /\ twin' = Step(twin, "search", DoSearch(twin, p, resp))
    /\ UNCHANGED <<p, sanVars, schemaVars>>

FetchRecord ==
    /\ At("record")
    /\ \E resp \in Responses(RecordBodies) :
          /\ run' = Step(run, "record", DoRecord(run, p, resp))
          /\ twin' = Step(twin, "record", DoRecord(twin, p, resp))
    /\ UNCHANGED <<p, sanVars, schemaVars>>

FetchSchema ==
    /\ At("schema")
    /\ \E resp \in Responses(SchemaBodies) :
          /\ run' = Step(run, "schema", DoSchema(run, p, resp))
          /\ twin' = Step(twin, "schema", DoSchema(twin, p, resp))
    /\ UNCHANGED <<p, sanVars, schemaVars>>

FetchBucket ==
    /\ At("bucket")
    /\ \E resp \in Responses(BucketBodies) :
          /\ run' = Step(run, "bucket", DoBucket(run, p, resp))
          /\ twin' = Step(twin, "bucket", DoBucket(twin, p, resp))
    /\ UNCHANGED <<p, sanVars, schemaVars>>

Validate ==
    /\ At("validate")
    /\ \E oracle \in Oracles :
          /\ run' = Step(run, "validate", DoValidate(run, p, oracle))
          /\ twin' = Step(twin, "validate", DoValidate(twin, p, TwinOracle(oracle)))
    /\ UNCHANGED <<p, sanVars, schemaVars>>

HeadFile ==
    /\ At("head")
    /\ \E resp \in HeadResponses :
          /\ run' = Step(run, "head", DoHead(run, p, resp))
          /\ twin' = Step(twin, "head", DoHead(twin, p, resp))
    /\ UNCHANGED <<p, sanVars, schemaVars>>

Next == Start \/ Search \/ FetchRecord \/ FetchSchema \/ FetchBucket \/ Validate \/ HeadFile

Spec == Init /\ [][Next]_vars

(***************************************************************************)
(* Properties of the tree walks                                            *)
(***************************************************************************)
\* An occurrence is named by the steps leading to it from the root: a key of
\* a mapping or a position of a sequence.
KeyStep(key) == [kind |-> "key", key |-> key, idx |-> 0]
IdxStep(i) == [kind |-> "idx", key |-> "", idx |-> i]

RECURSIVE Addresses(_)
\* Every key occurrence and every sequence element below t
Addresses(t) ==
    IF IsDict(t)
    THEN UNION {{<<KeyStep(t.items[i].k)>>}
                \cup {<<KeyStep(t.items[i].k)>> \o a : a \in Addresses(t.items[i].v)} :
                i \in DOMAIN t.items}
    ELSE IF IsList(t)
    THEN UNION {{<<IdxStep(i)>>}
                \cup {<<IdxStep(i)>> \o a : a \in Addresses(t.elems[i])} :
                i \in DOMAIN t.elems}
    ELSE {}

RECURSIVE FullPathFrom(_, _)
\* The fully qualified path of an occurrence: keys joined by dots, one
\* bracket marker per sequence crossed
FullPathFrom(path, a) ==
    IF a = <<>>
    THEN path
    ELSE FullPathFrom(IF a[1].kind = "idx" THEN path \o "[]"
                      ELSE IF path = "" THEN a[1].key
                      ELSE path \o "." \o a[1].key,
                      Tail(a))
FullPath(a) == FullPathFrom("", a)

EnrichmentKeys ==
    {"icon", "props", "tags", "scheme", "uri", "identifier", "identifiers",
     "description", "links"}

\* Occurrences of an enrichment key as a key of a mapping, at any depth
EnrichmentOccurrences(t) ==
    {a \in Addresses(t) : a[Len(a)].kind = "key" /\ a[Len(a)].key \in EnrichmentKeys}

\* The mapping holding the occurrence is still there in t
ParentKept(t, a) == Len(a) = 1 \/ SubSeq(a, 1, Len(a) - 1) \in Addresses(t)

\* C7 as stated: every occurrence of an enrichment key, at any depth, is
\* absent from the output of sanitize_rdm_metadata and, when a report list is
\* supplied, its fully qualified path is in the report list.
C7_EveryOccurrenceReported ==
    san.called =>
        \A a \in EnrichmentOccurrences(tree) :
            /\ a \notin Addresses(san.val)
            /\ san.withReport => FullPath(a) \in Range(san.report)

\* C7 amended: every occurrence of an enrichment key is absent from the
\* output; its fully qualified path is in the supplied report list when the
\* mapping holding it is kept in the output, that is, when no key on the way
\* to it was itself removed.
C7_KeptOccurrenceReported ==
    san.called =>
        \A a \in EnrichmentOccurrences(tree) :
            /\ a \notin Addresses(san.val)
            /\ (san.withReport /\ ParentKept(san.val, a))
                   => FullPath(a) \in Range(san.report)

\* An enrichment key inside a sequence inside a kept mapping was dropped and
\* reported with its bracketed path.
C7_Witness ==
    /\ san.called /\ san.withReport
    /\ \E a \in EnrichmentOccurrences(tree) :
          /\ Len(a) = 3 /\ a[2].kind = "idx"
          /\ ParentKept(san.val, a)
          /\ FullPath(a) \in Range(san.report)

\* C8: the paths returned by scan_vocab_extras are the paths that
\* sanitize_rdm_metadata appends to its report list for the same tree, and
\* no step of the scan changes the tree.
C8_ScanAgreesWithSanitizer ==
    /\ []((san.called /\ san.withReport /\ scan.called)
              => Range(scan.found) = Range(san.report))
    /\ [][scan'.called => tree' = tree]_vars

\* Both walks ran on a tree where each removal rule applies and something
\* is nested below a removed key.
C8_Witness ==
    /\ san.called /\ san.withReport /\ scan.called
    /\ tree = Dict(<<KV("creators", List(<<AllExtrasDoc, RightsDoc>>))>>)
    /\ "creators[].title" \in Range(scan.found)
    /\ "creators[].rights.icon" \in Range(scan.found)
    /\ Len(scan.found) = Len(san.report)

(***************************************************************************)
(* Properties of build_metadata_schema                                     *)
(***************************************************************************)
\* The parent schema has properties.metadata and it is a mapping
HasMetadataSchema(ps) ==
    /\ Has(ps, "properties") /\ IsDict(Get(ps, "properties"))
    /\ Has(Get(ps, "properties"), "metadata")
    /\ IsDict(Get(Get(ps, "properties"), "metadata"))

MetadataSchemaOf(ps) == Get(Get(ps, "properties"), "metadata")

ParentDeclarator(ps) == IF Has(ps, "$schema") THEN Get(ps, "$schema") ELSE Str(Draft07)

\* C9 as stated: KeyError when properties.metadata is missing or no mapping;
\* otherwise the keys of the result are the sub-schema's keys plus $schema and
\* the $schema value is the parent's (draft-07 when the parent has none).
C9_DeclaratorFromParent ==
    built.called =>
        IF ~HasMetadataSchema(parent)
        THEN built.raised = "KeyError"
        ELSE /\ built.raised = ""
             /\ Keys(built.val) = Keys(MetadataSchemaOf(parent)) \cup {"$schema"}
             /\ Get(built.val, "$schema") = ParentDeclarator(parent)

\* C9 amended: KeyError when properties.metadata is missing or no mapping;
\* otherwise the keys of the result are the sub-schema's keys plus $schema and
\* the $schema value is the sub-schema's own $schema when it has one, else the
\* parent's (draft-07 when the parent has none).
C9_DeclaratorOwnOrParent ==
    built.called =>
        IF ~HasMetadataSchema(parent)
        THEN built.raised = "KeyError"
        ELSE /\ built.raised = ""
             /\ Keys(built.val) = Keys(MetadataSchemaOf(parent)) \cup {"$schema"}
             /\ Get(built.val, "$schema") =
                    IF Has(MetadataSchemaOf(parent), "$schema")
                    THEN Get(MetadataSchemaOf(parent), "$schema")
                    ELSE ParentDeclarator(parent)

\* A document was built from a parent without $schema and a sub-schema
\* without $schema: the draft-07 default was used.
C9_Witness ==
    /\ built.called /\ built.raised = ""
    /\ ~Has(parent, "$schema")
    /\ ~Has(MetadataSchemaOf(parent), "$schema")
    /\ Keys(built.val) = {"$schema", "type", "properties", "required"}
    /\ Get(built.val, "$schema") = Str(Draft07)

(***************************************************************************)
(* Properties of the run                                                   *)
(***************************************************************************)
OkLines == {"OK", "OK: records, metadata schemas and files are accessible."}
IsCriticalLine(line) ==
    Len(line) >= Len("CRITICAL: ") /\ SubSeq(line, 1, Len("CRITICAL: ")) = "CRITICAL: "
CriticalLines(r) == {i \in DOMAIN r.stdout : IsCriticalLine(r.stdout[i])}

IsRequest(c) == c.op \in {"GET", "HEAD"}
Requests(r) == SelectSeq(r.calls, IsRequest)
HeadIssued(r) == \E i \in DOMAIN r.calls : r.calls[i].op = "HEAD"

\* What jsonschema.validate answered in the run ("" before the call)
Verdict(r) ==
    IF \E i \in DOMAIN r.calls : r.calls[i].op = "validate"
    THEN r.calls[CHOOSE i \in DOMAIN r.calls : r.calls[i].op = "validate"].result
    ELSE ""

SearchUrlOf(r) == r.base_url \o "/api/records?sort=newest&size=10"

\* C1: a run whose metadata fails validation in the v2 branch, or in the v3
\* branch with strict mode on, ends with a single CRITICAL line on standard
\* output and exit code 2, and the HEAD check is never issued.
C1_HardValidationFailureIsCritical ==
    (/\ run.pc = "done"
     /\ Verdict(run) = "ValidationError"
     /\ run.version = "v2" \/ (run.version = "v3" /\ p.strict_metadata))
    => /\ run.exit = 2
       /\ Cardinality(CriticalLines(run)) = 1
       /\ Len(run.stdout) \in CriticalLines(run)
       /\ ~HeadIssued(run)

\* C2: when a run has ended, the last line on standard output is one of the
\* two OK lines or a CRITICAL line, the exit code is 0 exactly when it is an
\* OK line, and is 2 or 3 otherwise.
C2_TerminalLineAndExitCode ==
    run.pc = "done" =>
        /\ run.stdout # <<>>
        /\ LET last == run.stdout[Len(run.stdout)]
           IN  /\ last \in OkLines \/ IsCriticalLine(last)
               /\ run.exit = 0 <=> last \in OkLines
               /\ run.exit # 0 => run.exit \in {2, 3}

\* C3: when the search reports zero hits (or no hit count), the run is over
\* with the search as its only request; without the fail-on-empty flag the
\* last line on standard output is OK and the exit code is 0, with the flag
\* a CRITICAL line is on standard output and the exit code is 2.
C3_NoRecordsEndsRun ==
    run.total = Num(0) =>
        /\ run.pc = "done"
        /\ run.calls = <<[op |-> "GET", arg |-> SearchUrlOf(run), result |-> "ok"]>>
        /\ IF p.error_if_no_records_present
           THEN CriticalLines(run) # {} /\ run.exit = 2
           ELSE run.stdout[Len(run.stdout)] = "OK" /\ run.exit = 0

\* The search reported no hits and the flag is unset: the run is over after
\* "hits: 0" and "OK" with exit code 0.
C3_Witness ==
    /\ run.total = Num(0) /\ run.pc = "done" /\ run.exit = 0
    /\ ~p.error_if_no_records_present
    /\ run.stdout = <<"hits: 0", "OK">>

\* The run took the v3 branch without strict mode and jsonschema.validate
\* answered valid in one of run and twin and ValidationError in the other.
LenientPair ==
    /\ run.version = "v3" /\ ~p.strict_metadata
    /\ Verdict(run) \in {"valid", "ValidationError"}

WarningLine == "WARNING: Non-strict metadata validation warning:"
Warned(r) == \E i \in DOMAIN r.stderr : r.stderr[i] = WarningLine

\* Both runs are at the same place with the same standard output and exit
\* code, and the failure shows as the WARNING on standard error exactly at
\* verbosity 3.
SameVerdict ==
    /\ run.pc = twin.pc
    /\ run.stdout = twin.stdout
    /\ run.exit = twin.exit
    /\ Warned(run) <=> (Verdict(run) = "ValidationError" /\ p.verbose = 3)
    /\ Warned(twin) <=> (Verdict(twin) = "ValidationError" /\ p.verbose = 3)

\* C4 as stated: in the v3 branch without strict mode, two runs that differ
\* only in whether the sanitized metadata validates have the same standard
\* output and exit code, the file existence check is issued in both, and the
\* failure shows only as a WARNING on standard error at verbosity 3.
C4_HeadIssuedInBoth ==
    LenientPair =>
        /\ SameVerdict
        /\ run.pc = "done" => HeadIssued(run) /\ HeadIssued(twin)

\* The first descriptor of bucket.entries carries links.self
FirstEntryHasLink(r) ==
    /\ Get(r.bucket, "entries").elems # <<>>
    /\ MissingLink(Get(r.bucket, "entries").elems[1], "self") = ""

\* C4 amended: ... have the same standard output and exit code, the file
\* existence check is issued in both or in neither (in both whenever the
\* first entry of the bucket carries links.self), and the failure shows only
\* as a WARNING on standard error at verbosity 3.
C4_HeadIssuedInBothOrNeither ==
    LenientPair =>
        /\ SameVerdict
        /\ HeadIssued(run) <=> HeadIssued(twin)
        /\ (run.pc = "done" /\ FirstEntryHasLink(run)) => HeadIssued(run) /\ HeadIssued(twin)

\* The metadata failed validation at verbosity 3, the run went on to the
\* file check and ended OK, as did its twin whose metadata validated.
C4_Witness ==
    /\ LenientPair /\ Verdict(run) = "ValidationError" /\ Verdict(twin) = "valid"
    /\ p.verbose = 3 /\ Warned(run) /\ ~Warned(twin)
    /\ run.pc = "done" /\ run.exit = 0 /\ twin.exit = 0
    /\ HeadIssued(run) /\ HeadIssued(twin)

\* C5 as stated: a base URL without scheme ends the run with exit code 3, a
\* timeout below 1 ends it with an exit code other than 3, and in neither
\* case is a request sent.
C5_TimeoutNever3 ==
    run.pc # "start" =>
        /\ p.url.prepare = "MissingSchema"
              => run.pc = "done" /\ run.exit = 3 /\ run.calls = <<>>
        /\ p.timeout < 1
              => run.pc = "done" /\ run.exit # 3 /\ run.calls = <<>>

\* C5 amended: a base URL without scheme ends the run with exit code 3; a
\* timeout below 1 ends it with an exit code other than 3 unless the base URL
\* has no scheme as well (the URL is checked first); in neither case is a
\* request sent.
C5_TimeoutNot3UnlessUrlBad ==
    run.pc # "start" =>
        /\ p.url.prepare = "MissingSchema"
              => run.pc = "done" /\ run.exit = 3 /\ run.calls = <<>>
        /\ p.timeout < 1
              => /\ run.pc = "done" /\ run.calls = <<>>
                 /\ p.url.prepare # "MissingSchema" => run.exit \notin {-1, 0, 3}

\* A well-formed URL with timeout 0: the run is over with exit code 2 and
\* nothing was requested.
C5_Witness ==
    /\ run.pc = "done" /\ p.url.prepare = "ok" /\ p.timeout < 1
    /\ run.exit = 2 /\ run.calls = <<>> /\ run.stdout = <<>>

\* The first descriptor's links.self in the list the classification names
FirstFileOf(bucket, version) ==
    Get(Get(Get(bucket, IF version = "v3" THEN "entries" ELSE "contents").elems[1],
            "links"), "self").str

\* C6: the shape is v3 whenever the bucket has `entries` and v2 otherwise;
\* the schema check made (draft-07 for v3, draft-04 for v2) and the list the
\* file is picked from (`entries` for v3, `contents` for v2) follow it, and
\* once set it never changes.
C6_ShapeDecidedOnce ==
    /\ [](run.version # "" =>
            /\ run.version = IF Has(run.bucket, "entries") THEN "v3" ELSE "v2"
            /\ \A i \in DOMAIN run.calls :
                  /\ run.calls[i].op = "check_schema"
                        => run.calls[i].arg = IF run.version = "v3" THEN "Draft7" ELSE "Draft4"
                  /\ run.calls[i].op = "HEAD"
                        => run.calls[i].arg = FirstFileOf(run.bucket, run.version))
    /\ [](run.version = "" =>
            \A i \in DOMAIN run.calls : run.calls[i].op \notin {"check_schema", "HEAD"})
    /\ [][run.version # "" => run'.version = run.version /\ run'.bucket = run.bucket]_vars

\* A bucket with both keys was classified v3, checked as draft-07, and the
\* file was taken from `entries`.
C6_Witness ==
    /\ Has(run.bucket, "entries") /\ Has(run.bucket, "contents")
    /\ run.version = "v3"
    /\ \E i \in DOMAIN run.calls : run.calls[i] = [op |-> "check_schema", arg |-> "Draft7", result |-> "ok"]
    /\ \E i \in DOMAIN run.calls : run.calls[i].op = "HEAD" /\ run.calls[i].arg = EntryUrl

\* The requests of a complete run, in order
RequestOrder(r) ==
    <<[op |-> "GET", arg |-> SearchUrlOf(r)], [op |-> "GET", arg |-> r.record_url],
      [op |-> "GET", arg |-> r.schema_url], [op |-> "GET", arg |-> r.bucket_url],
      [op |-> "HEAD", arg |-> r.file_url]>>

\* Calls i that ended in a failure the run does not survive
HardFailure(r, i) ==
    /\ r.calls[i].result \notin {"ok", "valid"}
    /\ ~(/\ r.calls[i].op = "validate" /\ r.calls[i].result = "ValidationError"
         /\ r.version = "v3" /\ ~p.strict_metadata)

\* The operations of the requests among the first i calls
RequestsUpTo(r, i) ==
    LET reqs == Requests([calls |-> SubSeq(r.calls, 1, i)])
    IN  [j \in DOMAIN reqs |-> reqs[j].op]

\* C10: the requests are search, record, schema, bucket, file check, in this
\* order and each at most once; validation comes after the bucket fetch and
\* before the file check; after a failure nothing more is requested and no
\* OK line is printed.
C10_FixedOrderNoRetry ==
    /\ [](/\ Len(Requests(run)) <= Len(RequestOrder(run))
          /\ \A i \in DOMAIN Requests(run) :
                /\ Requests(run)[i].op = RequestOrder(run)[i].op
                /\ Requests(run)[i].arg = RequestOrder(run)[i].arg
          /\ \A i \in DOMAIN run.calls :
                /\ run.calls[i].op \in {"check_schema", "validate"}
                      => RequestsUpTo(run, i) = <<"GET", "GET", "GET", "GET">>
                /\ run.calls[i].op = "HEAD"
                      => \E j \in 1..(i - 1) : run.calls[j].op = "validate"
                /\ HardFailure(run, i) => i = Len(run.calls) /\ run.pc = "done"
          /\ run.exit \notin {-1, 0} => \A i \in DOMAIN run.stdout : run.stdout[i] \notin OkLines)
    /\ [][run.exit \notin {-1, 0}
             => run'.calls = run.calls /\ run'.stdout = run.stdout /\ run'.exit = run.exit]_vars

\* All five requests were made in order, validation in between, and the
\* file check failed: CRITICAL, exit 2.
C10_Witness ==
    /\ Len(Requests(run)) = Len(RequestOrder(run))
    /\ run.calls[Len(run.calls)].result = "HTTPError"
    /\ run.pc = "done" /\ run.exit = 2
    /\ \E i \in DOMAIN run.calls : run.calls[i].op = "validate"

====
